---- MODULE Spec2Model ----
(***************************************************************************)
(* Model of scripts/blender_explode.py: the part size estimator, the step *)
(* partitioner, the arrow generator (length guard, measures of shaft and  *)
(* head, cleanup after a failure), the camera framing, the explosion loop *)
(* and the main() pass that records base positions, renames the parts,    *)
(* lays out the parts diagram, explodes and renders each assembly step    *)
(* and the final image; and of scripts/watcher.py: the cache of processed *)
(* hashes, the initial scan and the handler of the file events.           *)
(*                                                                         *)
(* Number representation.  The script computes with floats; the model     *)
(* computes with integers in two fixed-point units.                        *)
(*   - a dimension or size is an integer number of sixths of 1e-6, so     *)
(*     that the mean of one, two or three dimensions that are multiples   *)
(*     of 1e-6 is exact;                                                   *)
(*   - a coordinate is an integer number of 1e-3 world units.             *)
(***************************************************************************)
EXTENDS Integers, Sequences, FiniteSets, TLC

VARIABLES
    mode,        \* which entry point of the script this behaviour exercises
    szObj,       \* get_object_size: the argument obj
    szRet,       \* get_object_size: the returned value, NoValue before the call
    ptTotal,     \* step loop: num_total_parts
    ptTarget,    \* step loop: TARGET_STEPS
    ptStepSize,  \* step loop: step_size, NoValue before it is computed
    ptI,         \* step loop: the loop variable i
    ptSlices,    \* step loop: the parts_in_this_step_indices ranges so far
    ptDone,      \* step loop: the for loop has ended
    arStart,     \* arrow call: start (the part's current position)
    arEnd,       \* arrow call: end (the destination)
    arPart,      \* arrow call: target_part
    arFail,      \* arrow call: the scene operation that raises, or "none"
    arRet,       \* arrow call: what create_arrow returned, "NotCalled" before
    arScene,     \* arrow call: the objects the call left in the scene
    arGeom,      \* arrow call: the measures of the primitives it made
    arList,      \* arrow call: the caller's current_step_arrows
    frTargets,   \* framing call: the argument target_objects
    frBefore,    \* framing call: the scene camera before the call
    frCamera,    \* framing call: the scene camera
    frCalled,    \* framing call: frame_objects has returned
    frInfo,      \* framing call: the bounds, centre, size and distance used
    exFactor,    \* explosion: the configured EXPLODE_FACTOR
    exBases,     \* explosion: the base position of each part, by list index
    exSizes,     \* explosion: get_object_size of each part, by list index
    exI,         \* explosion: the first index i of the step
    exCenter,    \* explosion: assembled_center
    exResult,    \* explosion: direction, distance, lift and location of
                 \*            each part the loop has exploded
    exDone,      \* explosion: the loop over the parts has run
    pc,             \* main(): the position in the function
    model,          \* main(): parts as separate_and_get_parts returned them
    targetSteps,    \* main(): the configured TARGET_STEPS
    sceneFailure,   \* main(): the scene operation that raises in this run
    partName,       \* main(): part.name of each part, by list index
    partLoc,        \* main(): part.location of each part, by list index
    hideRender,     \* main(): hide_render (and hide_viewport, always set
                    \*         together) of every object of bpy.data.objects
    base_positions, \* main(): the dict base_positions, name -> position
    metaParts,      \* main(): metadata['parts']
    step_i,         \* main(): the step loop's variable i
    step_size,      \* main(): step_size
    active_parts_in_scene, \* main(): indices of the parts of earlier steps
    all_step_arrows,       \* main(): every arrow created so far
    current_step_arrows,   \* main(): the arrows of the step in progress
    destinations,   \* main(): parts_in_this_step_destinations (markers)
    step_data,      \* main(): the list that becomes metadata['steps']
    renders,        \* main(): the images rendered so far, with what they show
    metadataWrites, \* main(): the documents written to metadata.json, in order
    wPhase,      \* watcher: "start", "scan" (initial_scan runs), "watch"
    wFiles,      \* watcher: the SHA-256 of each model file, NoHash when the
                 \*          file is missing or cannot be read
    wDisk,       \* watcher: the hashes that are keys of cache.json
    wMem,        \* watcher: the keys of the dict main() loaded and shares
                 \*          with initial_scan and the handler (self.cache)
    wRecent,     \* watcher: the handler's recently_processed
    wScanLeft,   \* watcher: the files initial_scan has still to visit
    wQueue,      \* watcher: the events the observer has still to dispatch
    wCalls,      \* watcher: the calls of process_model so far, in order
    wBlenderOk,  \* watcher: the hashes whose Blender step has succeeded
    wWrites,     \* watcher: how often the directory was changed
    wRestarts    \* watcher: how often the watcher was started again

sizeVars == <<szObj, szRet>>
partVars == <<ptTotal, ptTarget, ptStepSize, ptI, ptSlices, ptDone>>
arrowVars == <<arStart, arEnd, arPart, arFail, arRet, arScene, arGeom,
              arList>>
mainVars == <<pc, model, targetSteps, sceneFailure, partName, partLoc,
              hideRender, base_positions, metaParts, step_i, step_size,
              active_parts_in_scene, all_step_arrows, current_step_arrows,
              destinations, step_data, renders, metadataWrites>>
frameVars == <<frTargets, frBefore, frCamera, frCalled, frInfo>>
explodeVars == <<exFactor, exBases, exSizes, exI, exCenter, exResult, exDone>>
watcherVars == <<wPhase, wFiles, wDisk, wMem, wRecent, wScanLeft, wQueue,
                 wCalls, wBlenderOk, wWrites, wRestarts>>
vars == <<mode, sizeVars, partVars, arrowVars, frameVars, explodeVars,
         mainVars, watcherVars>>

NoValue == 0 - 1
\* the measures of an arrow that was not made
NoGeometry == <<>>

(***************************************************************************)
(* Units                                                                   *)
(***************************************************************************)
\* one 1e-6 in size units (sixths of 1e-6)
Micro == 2 * 3
\* 1.0 in size units
SizeOne == 1000000 * Micro

(***************************************************************************)
(* get_object_size                                                         *)
(***************************************************************************)
\* the epsilon 1e-6 of the filter "d > 1e-6" and the value of "return 1e-6"
DIM_EPSILON == 1 * Micro
\* "return 1.0": the default size of an invalid object
DEFAULT_SIZE == 1 * SizeOne

RECURSIVE SumSeq(_)
SumSeq(s) == IF s = <<>> THEN 0 ELSE Head(s) + SumSeq(Tail(s))

IsValidDim(d) == d > DIM_EPSILON

\* valid_dims = [d for d in dims if d > 1e-6]
ValidDims(dims) == SelectSeq(dims, IsValidDim)

\* a plausible slip: the mean taken over all three dimensions
GetObjectSize_MeanOfAll(obj) ==
    IF obj.kind # "Object"
    THEN DEFAULT_SIZE
    ELSE IF ValidDims(obj.dims) = <<>>
         THEN DIM_EPSILON
         ELSE SumSeq(ValidDims(obj.dims)) \div Len(obj.dims)

\* a plausible slip: the dimension equal to the epsilon counts as valid
GetObjectSize_InclusiveEps(obj) ==
    IF obj.kind # "Object"
    THEN DEFAULT_SIZE
    ELSE LET valid == SelectSeq(obj.dims, LAMBDA d : d >= DIM_EPSILON)
         IN  IF valid = <<>> THEN DIM_EPSILON ELSE SumSeq(valid) \div Len(valid)

\* a plausible slip: no guard for the empty list, the sum (0) is returned
GetObjectSize_NoEmptyGuard(obj) ==
    IF obj.kind # "Object"
    THEN DEFAULT_SIZE
    ELSE IF ValidDims(obj.dims) = <<>>
         THEN SumSeq(ValidDims(obj.dims))
         ELSE SumSeq(ValidDims(obj.dims)) \div Len(ValidDims(obj.dims))

\* get_object_size(obj).  obj.kind is "None" (a falsy argument), "NoDims" (an
\* object without a dimensions attribute) or "Object" (obj.dims is its
\* dimensions vector).
GetObjectSize(obj) ==
    IF obj.kind # "Object"
    THEN DEFAULT_SIZE
    ELSE IF ValidDims(obj.dims) = <<>>
         THEN DIM_EPSILON
         ELSE SumSeq(ValidDims(obj.dims)) \div Len(ValidDims(obj.dims))

\* the dimension values the size estimator is exercised with: 0, 0.5e-6,
\* exactly 1e-6, 2e-6, 1.0 and 2.0
DimValues == {0, Micro \div 2, Micro, 2 * Micro, SizeOne, 2 * SizeOne}

SizeInputs ==
    {[kind |-> "None", dims |-> <<>>], [kind |-> "NoDims", dims |-> <<>>]}
    \cup {[kind |-> "Object", dims |-> <<x, y, z>>] :
              x \in DimValues, y \in DimValues, z \in DimValues}

IdleSize == szObj = [kind |-> "None", dims |-> <<>>] /\ szRet = NoValue

IdlePartition ==
    /\ ptTotal = 0 /\ ptTarget = 0 /\ ptStepSize = NoValue
    /\ ptI = 0 /\ ptSlices = <<>> /\ ptDone = FALSE

IdleArrow ==
    /\ arStart = <<0, 0, 0>> /\ arEnd = <<0, 0, 0>>
    /\ arPart = [kind |-> "None", dims |-> <<>>]
    /\ arFail = "none" /\ arRet = "NotCalled"
    /\ arScene = {} /\ arGeom = NoGeometry /\ arList = <<>>

\* no camera and no call of frame_objects
NoCamera == [present |-> FALSE, location |-> <<0, 0, 0>>, dir |-> <<0, 0, 0>>]
NoFraming == [found |-> FALSE, center |-> <<0, 0, 0>>, size |-> 0, distance |-> 0]

IdleFrame ==
    /\ frTargets = <<>> /\ frBefore = NoCamera /\ frCamera = NoCamera
    /\ frCalled = FALSE /\ frInfo = NoFraming

IdleExplode ==
    /\ exFactor = 0 /\ exBases = <<>> /\ exSizes = <<>> /\ exI = 0
    /\ exCenter = <<0, 0, 0>> /\ exResult = <<>> /\ exDone = FALSE

IdleWatcher ==
    /\ wPhase = "idle" /\ wFiles = <<>> /\ wDisk = {} /\ wMem = {}
    /\ wRecent = {} /\ wScanLeft = {} /\ wQueue = <<>> /\ wCalls = <<>>
    /\ wBlenderOk = {} /\ wWrites = 0 /\ wRestarts = 0

IdleMain ==
    /\ pc = "idle" /\ model = <<>> /\ targetSteps = 0
    /\ sceneFailure = [op |-> "none", part |-> 0]
    /\ partName = <<>> /\ partLoc = <<>> /\ hideRender = <<>>
    /\ base_positions = <<>> /\ metaParts = <<>>
    /\ step_i = 0 /\ step_size = 0 /\ active_parts_in_scene = <<>>
    /\ all_step_arrows = <<>> /\ current_step_arrows = <<>>
    /\ destinations = <<>> /\ step_data = <<>> /\ renders = <<>>
    /\ metadataWrites = <<>>

InitSize ==
    /\ mode = "size"
    /\ szObj \in SizeInputs
    /\ szRet = NoValue
    /\ IdlePartition
    /\ IdleArrow
    /\ IdleMain
    /\ IdleFrame
    /\ IdleExplode
    /\ IdleWatcher

\* one call of get_object_size(szObj)
CallGetObjectSize ==
    /\ mode = "size"
    /\ szRet = NoValue
    /\ szRet' = GetObjectSize(szObj)
    /\ UNCHANGED <<mode, szObj, partVars, arrowVars, frameVars, explodeVars, watcherVars,
                   mainVars>>

NextSize == CallGetObjectSize

SpecSize == InitSize /\ [][NextSize]_vars

SizeCalled == mode = "size" /\ szRet # NoValue

\* the sum and the number of the dimensions above the epsilon, taken
\* dimension by dimension
SumAboveEps(dims) ==
    (IF dims[1] > Micro THEN dims[1] ELSE 0)
    + (IF dims[2] > Micro THEN dims[2] ELSE 0)
    + (IF dims[3] > Micro THEN dims[3] ELSE 0)

CountAboveEps(dims) == Cardinality({k \in 1..3 : dims[k] > Micro})

\* C7: for every part (valid, degenerate in some or all dimensions, missing
\* or without a dimensions attribute) get_object_size returns a value
\* strictly greater than 0.
C7_SizePositive == SizeCalled => szRet > 0

\* a part all of whose dimensions are degenerate has been sized
C7_Witness ==
    /\ SizeCalled
    /\ szObj.kind = "Object"
    /\ CountAboveEps(szObj.dims) = 0

\* C8: get_object_size returns the arithmetic mean of exactly the
\* dimensions that exceed 1e-6, 1e-6 when none does, and 1.0 when the part
\* is missing or has no dimensions.
C8_MeanOfDimsAboveEpsilon ==
    SizeCalled =>
        IF szObj.kind # "Object"
        THEN szRet = SizeOne
        ELSE IF CountAboveEps(szObj.dims) = 0
             THEN szRet = Micro
             ELSE szRet * CountAboveEps(szObj.dims) = SumAboveEps(szObj.dims)

\* a part with one dimension exactly at the epsilon, one above and one
\* below it has been sized
C8_Witness ==
    /\ SizeCalled
    /\ szObj.kind = "Object"
    /\ szObj.dims = <<Micro, 2 * SizeOne, 0>>

Sliver == [kind |-> "Object", dims |-> <<0, 0, 2 * SizeOne>>]

\* C9 as stated: a part whose dimensions are (0, 0, 2) yields a size of
\* approximately 1e-6 (here: within 1e-6 of 1e-6).
C9_SliverYieldsEpsilon ==
    (SizeCalled /\ szObj = Sliver) => (szRet >= 0 /\ szRet <= 2 * Micro)

\* C9 as amended: a part whose dimensions are (0, 0, 2) yields size 2.0,
\* the mean of its only dimension above the epsilon.
C9_SliverYieldsItsOnlyDim ==
    (SizeCalled /\ szObj = Sliver) => szRet = 2 * SizeOne

\* the (0, 0, 2) part has been sized
C9_Witness == SizeCalled /\ szObj = Sliver

(***************************************************************************)
(* The step loop of main(): step_size and the index slice of each step    *)
(***************************************************************************)
Max(a, b) == IF a >= b THEN a ELSE b
Min(a, b) == IF a <= b THEN a ELSE b

\* math.ceil(n / d) for n >= 0, d > 0
CeilDiv(n, d) == (n + d - 1) \div d

\* a plausible slip: integer (floor) division in place of math.ceil
StepSize_Floor(total, target) ==
    IF target > 0 /\ total > 0
    THEN Max(1, total \div target)
    ELSE Max(1, CeilDiv(total, 5))

\* step_size = max(1, math.ceil(num_total_parts / TARGET_STEPS))
\*     if TARGET_STEPS > 0 and num_total_parts > 0
\*     else max(1, math.ceil(num_total_parts / 5))
StepSize(total, target) ==
    IF target > 0 /\ total > 0
    THEN Max(1, CeilDiv(total, target))
    ELSE Max(1, CeilDiv(total, 5))

\* range(lo, hi) as the sequence lo, lo+1, ..., hi-1
Range(lo, hi) == [k \in 1..Max(hi - lo, 0) |-> lo + k - 1]

\* a plausible slip: the slice end is not clamped to the number of parts
PartsInThisStepIndices_NoClamp(i, stepSize, total) == Range(i, i + stepSize)

\* parts_in_this_step_indices = range(i, min(i + step_size, num_total_parts))
PartsInThisStepIndices(i, stepSize, total) ==
    Range(i, Min(i + stepSize, total))

\* for i in range(0, num_total_parts, step_size): the loop runs another
\* iteration with the current i
StepLoopContinues(i, total) == i < total

\* step_num = i // step_size
StepNum(i, stepSize) == i \div stepSize

\* f"step{(step_num):02d}": "step", then step_num in decimal with at least
\* two digits, written as the number of tens and the last digit
StepImageName(step_num) == <<"step", step_num \div 10, step_num % 10>>

MaxTotalParts == 12
MaxTargetSteps == 8

InitPartition ==
    /\ mode = "partition"
    /\ ptTotal \in 1..MaxTotalParts
    /\ ptTarget \in 0..MaxTargetSteps
    /\ ptStepSize = NoValue
    /\ ptI = 0
    /\ ptSlices = <<>>
    /\ ptDone = FALSE
    /\ IdleSize
    /\ IdleArrow
    /\ IdleMain
    /\ IdleFrame
    /\ IdleExplode
    /\ IdleWatcher

\* step_size is computed before the loop is entered
PartitionStart ==
    /\ mode = "partition"
    /\ ptStepSize = NoValue
    /\ ptStepSize' = StepSize(ptTotal, ptTarget)
    /\ UNCHANGED <<mode, sizeVars, arrowVars, frameVars, explodeVars, watcherVars,
                   mainVars, ptTotal, ptTarget, ptI, ptSlices, ptDone>>

\* one iteration of the loop: the slice of this step, then the next i
PartitionStep ==
    /\ mode = "partition"
    /\ ptStepSize # NoValue
    /\ ~ptDone
    /\ StepLoopContinues(ptI, ptTotal)
    /\ ptSlices' = Append(ptSlices,
                          PartsInThisStepIndices(ptI, ptStepSize, ptTotal))
    /\ ptI' = ptI + ptStepSize
    /\ UNCHANGED <<mode, sizeVars, arrowVars, frameVars, explodeVars, watcherVars,
                   mainVars, ptTotal, ptTarget, ptStepSize, ptDone>>

\* the range is exhausted: the loop ends
PartitionExit ==
    /\ mode = "partition"
    /\ ptStepSize # NoValue
    /\ ~ptDone
    /\ ~StepLoopContinues(ptI, ptTotal)
    /\ ptDone' = TRUE
    /\ UNCHANGED <<mode, sizeVars, arrowVars, frameVars, explodeVars, watcherVars,
                   mainVars, ptTotal, ptTarget, ptStepSize, ptI, ptSlices>>

NextPartition == PartitionStart \/ PartitionStep \/ PartitionExit

SpecPartition == InitPartition /\ [][NextPartition]_vars

RECURSIVE Flatten(_)
Flatten(ss) == IF ss = <<>> THEN <<>> ELSE Head(ss) \o Flatten(Tail(ss))

\* C1: for any totalParts >= 1 and targetStepCount >= 1 the slices of the
\* step loop cover every part index 0..total-1 exactly once, in increasing
\* order, with no gap and no overlap between consecutive slices: the slices
\* produced so far, laid end to end, are 0, 1, ..., up to the next slice's
\* start, and all of 0..total-1 when the loop has ended; no slice is empty.
C1_SlicesPartitionInOrder ==
    (mode = "partition" /\ ptTarget >= 1) =>
        /\ Flatten(ptSlices) = Range(0, Min(ptI, ptTotal))
        /\ \A k \in 1..Len(ptSlices) : ptSlices[k] # <<>>
        /\ ptDone => Flatten(ptSlices) = Range(0, ptTotal)

\* the loop has ended after several slices, the last one shorter than the
\* others
C1_Witness ==
    /\ mode = "partition" /\ ptTarget >= 1 /\ ptDone
    /\ Len(ptSlices) >= 3
    /\ Len(ptSlices[Len(ptSlices)]) < Len(ptSlices[1])

\* C5: stepSize = max(1, ceil(totalParts / targetStepCount)), that is the
\* least s >= 1 with s * targetStepCount >= totalParts; 4 parts with
\* targetStepCount 2 give stepSize 2, step 0 introducing parts 0-1 and
\* step 1 parts 2-3, after which the loop ends.
C5_StepSizeIsCeiling ==
    (mode = "partition" /\ ptTarget >= 1 /\ ptStepSize # NoValue) =>
        /\ ptStepSize >= 1
        /\ ptStepSize * ptTarget >= ptTotal
        /\ (ptStepSize > 1 => (ptStepSize - 1) * ptTarget < ptTotal)
        /\ (ptTotal = 4 /\ ptTarget = 2) =>
               /\ ptStepSize = 2
               /\ ptDone => ptSlices = << <<0, 1>>, <<2, 3>> >>
               /\ Len(ptSlices) = 2 => ~StepLoopContinues(ptI, ptTotal)

\* the 4-part, 2-step scenario has run to the end of the loop
C5_Witness ==
    /\ mode = "partition" /\ ptTotal = 4 /\ ptTarget = 2 /\ ptDone
    /\ Len(ptSlices) = 2

(***************************************************************************)
(* Vectors: triples of coordinates in units of 1e-3                        *)
(***************************************************************************)
VAdd(a, b) == <<a[1] + b[1], a[2] + b[2], a[3] + b[3]>>
VSub(a, b) == <<a[1] - b[1], a[2] - b[2], a[3] - b[3]>>

\* the square of Vector.length, in units of 1e-6
LengthSquared(v) == v[1] * v[1] + v[2] * v[2] + v[3] * v[3]

\* a / b rounded towards zero
DivTrunc(a, b) == IF a >= 0 THEN a \div b ELSE 0 - ((0 - a) \div b)

RECURSIVE SqrtIter(_, _)
SqrtIter(n, x) ==
    LET y == (x + n \div x) \div 2 IN IF y >= x THEN x ELSE SqrtIter(n, y)
\* the integer part of the square root (Newton's iteration)
ISqrt(n) == IF n = 0 THEN 0 ELSE SqrtIter(n, n)

\* Vector.length in units of 1e-3
Length(v) == ISqrt(LengthSquared(v))

\* v / n, each component rounded towards zero
VDiv(v, n) == <<DivTrunc(v[1], n), DivTrunc(v[2], n), DivTrunc(v[3], n)>>

\* v.normalize(): the unit vector, its components in units of 1e-3
Normalized(v) ==
    <<DivTrunc(v[1] * 1000, Length(v)), DivTrunc(v[2] * 1000, Length(v)),
      DivTrunc(v[3] * 1000, Length(v))>>

\* direction * distance for a unit direction and a distance in units of 1e-3
Scaled(dir, distance) ==
    <<DivTrunc(dir[1] * distance, 1000), DivTrunc(dir[2] * distance, 1000),
      DivTrunc(dir[3] * distance, 1000)>>

(***************************************************************************)
(* create_arrow and its call in the step loop                              *)
(***************************************************************************)
\* the 0.01 of "if height < 0.01" in create_arrow and of the caller's
\* "(start_pos - destination).length < 0.01", in units of 1e-3
MIN_ARROW_HEIGHT == 10

\* a plausible slip: the comparison turned around
TooShort_Inverted(start, end) ==
    LengthSquared(VSub(end, start)) > MIN_ARROW_HEIGHT * MIN_ARROW_HEIGHT

\* height < 0.01, decided on the squares
TooShort(start, end) ==
    LengthSquared(VSub(end, start)) < MIN_ARROW_HEIGHT * MIN_ARROW_HEIGHT

\* Radii and depths of the arrow's primitives are integers in units of 1e-5
\* (a hundredth of the coordinate unit), so that 30% and 75% of a height in
\* units of 1e-3 are exact.
\*
\* ARROW_THICKNESS_RATIO = 0.05 and ARROW_HEAD_SIZE_RATIO = 0.15, in
\* hundredths
ARROW_THICKNESS_RATIO == 5
ARROW_HEAD_SIZE_RATIO == 15
\* ARROW_MIN_THICKNESS = 0.02, ARROW_MAX_THICKNESS = 0.15,
\* ARROW_MIN_HEAD_SIZE = 0.06 and ARROW_MAX_HEAD_SIZE = 0.4, in units of 1e-5
ARROW_MIN_THICKNESS == 2000
ARROW_MAX_THICKNESS == 15000
ARROW_MIN_HEAD_SIZE == 6000
ARROW_MAX_HEAD_SIZE == 40000
\* ARROW_MIN_LENGTH_FACTOR = 0.5, in tenths
ARROW_MIN_LENGTH_FACTOR == 5

\* part_size * ratio for a ratio in hundredths, in units of 1e-5
RatioOfSize(part_size, hundredths) ==
    (part_size * hundredths) \div (1000 * Micro)

\* min_arrow_length = part_size * ARROW_MIN_LENGTH_FACTOR, in units of 1e-3
MinArrowLength(part_size) ==
    (part_size * ARROW_MIN_LENGTH_FACTOR) \div (10 * 1000 * Micro)

\* "if height < min_arrow_length", decided on the squares
BelowMinLength(direction, min_arrow_length) ==
    LengthSquared(direction) < min_arrow_length * min_arrow_length

\* a plausible slip: the test turned around
DirectionUsable_Inverted(direction) == LengthSquared(direction) = 0

\* "if direction.length > 1e-6": coordinates are multiples of 1e-3, so the
\* length exceeds 1e-6 exactly when the vector is not zero
DirectionUsable(direction) == LengthSquared(direction) > 0

\* "end = start + normalized_direction * height": the end point the
\* adjustment computes, at distance height (not min_arrow_length) from start
AdjustedEnd(start, direction, height) ==
    VAdd(start, Scaled(Normalized(direction), height))

\* thickness = max(ARROW_MIN_THICKNESS, min(ARROW_MAX_THICKNESS, ...))
Thickness(part_size) ==
    Max(ARROW_MIN_THICKNESS,
        Min(ARROW_MAX_THICKNESS, RatioOfSize(part_size, ARROW_THICKNESS_RATIO)))

\* head_size = max(ARROW_MIN_HEAD_SIZE, min(ARROW_MAX_HEAD_SIZE, ...))
HeadSizeOfPart(part_size) ==
    Max(ARROW_MIN_HEAD_SIZE,
        Min(ARROW_MAX_HEAD_SIZE, RatioOfSize(part_size, ARROW_HEAD_SIZE_RATIO)))

\* head_depth = height * 0.3, from a height in units of 1e-3
HeadDepth(height) == height * 30

\* a plausible slip: the minimum head size applied after the cap
CappedHeadSize_FloorKept(head_size, head_depth) ==
    Max(ARROW_MIN_HEAD_SIZE, Min(head_size, (head_depth * 3) \div 2))

\* head_size = min(head_size, head_depth * 1.5)
CappedHeadSize(head_size, head_depth) ==
    Min(head_size, (head_depth * 3) \div 2)

\* a plausible slip: the shaft made to meet the head without overlap
ShaftDepth_NoOverlap(height) == height * 70

\* depth = height * 0.75 of the cylinder, from a height in units of 1e-3
ShaftDepth(height) == height * 75

\* "location=start + direction * (height * 0.375)": the centre given to
\* the cylinder; direction is end - start as it is, not a unit vector
ShaftLocation(start, direction, height) ==
    VAdd(start, <<DivTrunc(direction[1] * height * 3, 8000),
                  DivTrunc(direction[2] * height * 3, 8000),
                  DivTrunc(direction[3] * height * 3, 8000)>>)

\* "location=start + direction * (height * 0.85)": the location given to
\* the cone
HeadLocation(start, direction, height) ==
    VAdd(start, <<DivTrunc(direction[1] * height * 17, 20000),
                  DivTrunc(direction[2] * height * 17, 20000),
                  DivTrunc(direction[3] * height * 17, 20000)>>)

\* the measures create_arrow computes before it makes the primitives:
\* min_length and below_min record the test of line 437, end and height are
\* the values after the adjustment of lines 440-444
ArrowGeometry(start, end, part) ==
    LET part_size == GetObjectSize(part)
        min_arrow_length == MinArrowLength(part_size)
        direction0 == VSub(end, start)
        below == BelowMinLength(direction0, min_arrow_length)
        end1 == IF below
                THEN AdjustedEnd(start, direction0, Length(direction0))
                ELSE end
        direction == VSub(end1, start)
        height == Length(direction)
        head_depth == HeadDepth(height)
    IN  [min_length |-> min_arrow_length,
         below_min |-> below,
         end |-> end1,
         height |-> height,
         thickness |-> Thickness(part_size),
         head_depth |-> head_depth,
         head_size |-> CappedHeadSize(HeadSizeOfPart(part_size), head_depth),
         shaft_depth |-> ShaftDepth(height),
         shaft_location |-> ShaftLocation(start, direction, height),
         head_location |-> HeadLocation(start, direction, height)]

\* the operations of create_arrow that may raise, in program order: the two
\* primitives, the alignment, the material assignment, the join and the
\* statements after the join
ArrowFailures ==
    {"none", "cylinder_add", "cone_add", "align", "material", "join",
     "after_join"}

\* the objects of this call that are in the scene when the operation fail
\* raises: join leaves one object, the former shaft, which both shaft and
\* arrow refer to and which is written "arrow" here
MadeBefore(fail) ==
    CASE fail = "cylinder_add" -> {}
      [] fail = "cone_add" -> {"shaft"}
      [] fail \in {"align", "material", "join"} -> {"shaft", "head"}
      [] OTHER -> {"arrow"}

\* a plausible slip: only the shaft is removed
CleanedUp_ShaftOnly(made) == made \ {"shaft", "arrow"}

\* the except clause.  Line 530 removes the object shaft refers to, which
\* is the joined arrow once join has succeeded; line 531 removes the head
\* when there is one (after a join the head is gone and reading head.name
\* raises, which the inner except swallows); line 533 finds the arrow
\* already removed.
CleanedUp(made) ==
    LET afterShaft == made \ {"shaft", "arrow"}
    IN  afterShaft \ {"head"}

\* create_arrow(start, end, target_part): ret is "None" or "Arrow", scene
\* the objects the call leaves in the scene, geom the measures of the arrow
\* it returns.  The early return for a short arrow comes before any
\* primitive is made.
CreateArrow(start, end, part, fail) ==
    LET geom == ArrowGeometry(start, end, part)
    IN  IF TooShort(start, end)
        THEN [ret |-> "None", scene |-> {}, geom |-> NoGeometry]
        ELSE IF geom.below_min /\ ~DirectionUsable(VSub(end, start))
        THEN [ret |-> "None", scene |-> {}, geom |-> NoGeometry]
        ELSE IF fail # "none"
        THEN [ret |-> "None", scene |-> CleanedUp(MadeBefore(fail)),
              geom |-> NoGeometry]
        ELSE [ret |-> "Arrow", scene |-> MadeBefore(fail), geom |-> geom]

\* the joined arrow object, named name, as the caller keeps it
ArrowObject(name, start, end) == [name |-> name, start |-> start, end |-> end]

\* the caller, main(): "if (start_pos - destination).length < 0.01:
\* continue", then create_arrow, then "if arrow: append".  The result is
\* the list current_step_arrows after the part has been handled.
ArrowsAfterPart(list, name, start, destination, part, fail) ==
    IF TooShort(start, destination)
    THEN list
    ELSE IF CreateArrow(start, destination, part, fail).ret = "Arrow"
         THEN Append(list, ArrowObject(name, start, destination))
         ELSE list

\* start points and start-to-end offsets of the arrow calls: the zero
\* offset, offsets just below and just above 0.01, and long ones
ArrowStarts == {<<0, 0, 0>>, <<1000, 0, 500>>}
ArrowOffsets ==
    {<<0, 0, 0>>, <<9, 0, 0>>, <<10, 0, 0>>, <<5, 5, 5>>, <<6, 6, 6>>,
     <<0, 0, 0 - 9>>, <<0, 0, 0 - 800>>, <<300, 400, 0>>, <<0, 0, 2400>>}
\* reference parts: none, a unit cube, a part of size 4 (for which a
\* start-to-end distance below 2.0 is below the minimum length) and a part
\* without extent
ArrowParts ==
    {[kind |-> "None", dims |-> <<>>],
     [kind |-> "Object", dims |-> <<SizeOne, SizeOne, SizeOne>>],
     [kind |-> "Object", dims |-> <<4 * SizeOne, 4 * SizeOne, 4 * SizeOne>>],
     [kind |-> "Object", dims |-> <<0, 0, 0>>]}

InitArrow ==
    /\ mode = "arrow"
    /\ arStart \in ArrowStarts
    /\ \E d \in ArrowOffsets : arEnd = VAdd(arStart, d)
    /\ arPart \in ArrowParts
    /\ arFail \in ArrowFailures
    /\ arRet = "NotCalled"
    /\ arScene = {}
    /\ arGeom = NoGeometry
    /\ arList = <<>>
    /\ IdleSize
    /\ IdlePartition
    /\ IdleMain
    /\ IdleFrame
    /\ IdleExplode
    /\ IdleWatcher

\* create_arrow called directly with (arStart, arEnd, arPart)
CallCreateArrow ==
    /\ mode = "arrow"
    /\ arRet = "NotCalled"
    /\ arRet' = CreateArrow(arStart, arEnd, arPart, arFail).ret
    /\ arScene' = CreateArrow(arStart, arEnd, arPart, arFail).scene
    /\ arGeom' = CreateArrow(arStart, arEnd, arPart, arFail).geom
    /\ UNCHANGED <<mode, sizeVars, partVars, frameVars, explodeVars, watcherVars,
                   mainVars, arStart, arEnd, arPart, arFail,
                   arList>>

\* the step loop handles one part whose current position is arStart and
\* whose destination is arEnd
CallFromStepLoop ==
    /\ mode = "arrow"
    /\ arRet = "NotCalled"
    /\ arRet' = IF TooShort(arStart, arEnd)
                THEN "Skipped"
                ELSE CreateArrow(arStart, arEnd, arPart, arFail).ret
    /\ arScene' = IF TooShort(arStart, arEnd)
                  THEN {}
                  ELSE CreateArrow(arStart, arEnd, arPart, arFail).scene
    /\ arGeom' = IF TooShort(arStart, arEnd)
                 THEN NoGeometry
                 ELSE CreateArrow(arStart, arEnd, arPart, arFail).geom
    /\ arList' = ArrowsAfterPart(arList, <<"arrow", 0, 0>>, arStart, arEnd,
                                 arPart, arFail)
    /\ UNCHANGED <<mode, sizeVars, partVars, frameVars, explodeVars, watcherVars,
                   mainVars, arStart, arEnd, arPart, arFail>>

NextArrow == CallCreateArrow \/ CallFromStepLoop

SpecArrow == InitArrow /\ [][NextArrow]_vars

\* C10: for every start and end with |end - start| < 0.01 create_arrow
\* returns None and leaves no shaft, head or arrow object in the scene, and
\* no arrow shorter than 0.01 is ever in a step's arrow list.
C10_ShortArrowSuppressed ==
    mode = "arrow" =>
        /\ (arRet # "NotCalled"
              /\ LengthSquared(VSub(arEnd, arStart)) < 100)
             => (arRet \in {"None", "Skipped"} /\ arScene = {} /\ arList = <<>>)
        /\ \A k \in 1..Len(arList) :
               LengthSquared(VSub(arList[k].end, arList[k].start)) >= 100

\* create_arrow itself has been called with a non-zero offset shorter than
\* 0.01
C10_Witness ==
    /\ mode = "arrow"
    /\ arRet = "None"
    /\ arEnd # arStart
    /\ LengthSquared(VSub(arEnd, arStart)) < 100

\* create_arrow has returned (directly or to the step loop) for a start
\* and an end at least 0.01 apart
ArrowCalledLongEnough ==
    /\ mode = "arrow"
    /\ arRet \notin {"NotCalled", "Skipped"}
    /\ LengthSquared(VSub(arEnd, arStart)) >= 100

\* C11: for every start, end and reference part with |end - start| >= 0.01
\* and part size > 0, create_arrow returns an arrow (one joined object in
\* the scene) when no scene operation fails.
C11_ArrowReturnedWhenLongEnough ==
    (ArrowCalledLongEnough /\ GetObjectSize(arPart) > 0 /\ arFail = "none")
        => (arRet = "Arrow" /\ arScene = {"arrow"})

\* an arrow has been returned on the path through the minimum-length
\* adjustment
C11_Witness ==
    /\ ArrowCalledLongEnough /\ arFail = "none"
    /\ arRet = "Arrow" /\ arGeom.below_min

\* C12: when 0.01 <= |end - start| < minLength, with minLength =
\* size(referencePart) * 0.5, the end point is moved along the same
\* direction so that the length used for the shaft and the head equals
\* minLength.
C12_ShortArrowExtendedToMinLength ==
    (ArrowCalledLongEnough /\ arRet = "Arrow" /\ arGeom.below_min)
        => arGeom.height = arGeom.min_length

\* C13: for every arrow create_arrow returns, the head depth is 30% of the
\* arrow's length and the head radius is at most 1.5 times the head depth,
\* also when that is below ARROW_MIN_HEAD_SIZE.
C13_HeadRadiusCapped ==
    (ArrowCalledLongEnough /\ arRet = "Arrow") =>
        /\ arGeom.head_depth * 10 = arGeom.height * 100 * 3
        /\ arGeom.head_size * 2 <= arGeom.head_depth * 3

\* an arrow has been returned whose head radius the cap has pushed below
\* ARROW_MIN_HEAD_SIZE
C13_Witness ==
    /\ ArrowCalledLongEnough /\ arRet = "Arrow"
    /\ arGeom.head_size < ARROW_MIN_HEAD_SIZE
    /\ arGeom.head_size > 0

\* C14: for every arrow create_arrow returns, the shaft is 75% and the head
\* 30% of the length of the segment from start to the end point in use, so
\* that shaft length plus head depth is that length within the overlap of
\* 5%.
C14_ShaftPlusHeadIsLength ==
    (ArrowCalledLongEnough /\ arRet = "Arrow") =>
        LET segment == Length(VSub(arGeom.end, arStart)) * 100
        IN  /\ arGeom.shaft_depth * 100 = segment * 75
            /\ arGeom.head_depth * 100 = segment * 30
            /\ arGeom.shaft_depth + arGeom.head_depth >= segment
            /\ (arGeom.shaft_depth + arGeom.head_depth) * 100 <= segment * 105

\* an arrow of length 0.5 has been returned
C14_Witness ==
    /\ ArrowCalledLongEnough /\ arRet = "Arrow"
    /\ arGeom.height = 500 /\ arGeom.shaft_depth > 0

MeshTarget(lo, hi, hidden) ==
    [valid |-> TRUE, kind |-> "mesh", hidden |-> hidden, lo |-> lo, hi |-> hi]

\* s = obj.empty_display_size * 0.5; the extent is loc - s .. loc + s
EmptyTarget(loc, empty_display_size, hidden) ==
    LET half == empty_display_size \div 2
    IN  [valid |-> TRUE, kind |-> "empty", hidden |-> hidden,
         lo |-> VSub(loc, <<half, half, half>>),
         hi |-> VAdd(loc, <<half, half, half>>)]

PointTarget(kind, pos, valid) ==
    [valid |-> valid, kind |-> kind, hidden |-> FALSE, lo |-> pos, hi |-> pos]

\* the objects target_objects may hold: a unit cube, a small part (diagonal
\* below 0.5), a box of diagonal 3.0, a hidden cube, objects without
\* obtainable bounds, a destination marker, a hidden marker, a light, an
\* object of another type and a removed object
FrameTargets ==
    {MeshTarget(<<0 - 500, 0 - 500, 0 - 500>>, <<500, 500, 500>>, FALSE),
     MeshTarget(<<0, 0, 0>>, <<100, 100, 100>>, FALSE),
     MeshTarget(<<1000, 0, 0>>, <<3000, 1000, 2000>>, FALSE),
     MeshTarget(<<0 - 500, 0 - 500, 0 - 500>>, <<500, 500, 500>>, TRUE),
     PointTarget("mesh_nobox", <<0, 0, 0>>, TRUE),
     PointTarget("mesh_raises", <<0, 0, 0>>, TRUE),
     EmptyTarget(<<0, 1000, 0>>, 300, FALSE),
     EmptyTarget(<<0, 1000, 0>>, 300, TRUE),
     PointTarget("light", <<5000, 5000, 10000>>, TRUE),
     PointTarget("other", <<0, 0, 0>>, TRUE),
     PointTarget("mesh", <<0, 0, 0>>, FALSE)}

MaxTargets == 2

\* "valid_targets = [obj for obj in target_objects if obj and obj.name in
\* bpy.data.objects]"
ValidTargets_All(targets) == targets

ValidTargets(targets) == SelectSeq(targets, LAMBDA obj : obj.valid)

\* the object sets valid_bounds_found: a mesh whose bound_box is not None,
\* read without an exception, an empty or a light, each only when it is not
\* hidden in the viewport
YieldsBounds(obj) ==
    CASE obj.kind = "mesh" -> ~obj.hidden
      [] obj.kind = "empty" -> ~obj.hidden
      [] obj.kind = "light" -> ~obj.hidden
      [] OTHER -> FALSE

\* the valid targets that enter min_coord and max_coord
Contributing(targets) == SelectSeq(ValidTargets(targets), YieldsBounds)

SetMin(S) == CHOOSE x \in S : \A y \in S : x <= y
SetMax(S) == CHOOSE x \in S : \A y \in S : x >= y

\* min_coord and max_coord after the loop over a non-empty list
MinCoord(objs) ==
    [c \in 1..3 |-> SetMin({objs[k].lo[c] : k \in DOMAIN objs})]
MaxCoord(objs) ==
    [c \in 1..3 |-> SetMax({objs[k].hi[c] : k \in DOMAIN objs})]

\* "size = 5.0" of the default framing and "max(size, 0.5)", in units of
\* 1e-3; CAMERA_DISTANCE_FACTOR = 1.5 in tenths
DEFAULT_FRAME_SIZE == 5000
MIN_FRAME_SIZE == 500
CAMERA_DISTANCE_FACTOR == 15

\* a plausible slip: the minimum size left out
FrameSize_NoFloor(min_coord, max_coord) == Length(VSub(max_coord, min_coord))

\* size = max((max_coord - min_coord).length, 0.5)
FrameSize(min_coord, max_coord) ==
    Max(Length(VSub(max_coord, min_coord)), MIN_FRAME_SIZE)

\* center and size: from the bounds when some were found, the default
\* (origin, 5.0) when none was
Framing(targets) ==
    LET objs == Contributing(targets)
        size == IF objs = <<>>
                THEN DEFAULT_FRAME_SIZE
                ELSE FrameSize(MinCoord(objs), MaxCoord(objs))
    IN  [found |-> objs # <<>>,
         center |-> IF objs = <<>>
                    THEN <<0, 0, 0>>
                    ELSE VDiv(VAdd(MinCoord(objs), MaxCoord(objs)), 2),
         size |-> size,
         distance |-> (size * CAMERA_DISTANCE_FACTOR) \div 10]

\* Vector((0.8, -0.8, 0.6)).normalized(), its components in units of 1e-5
CameraOffsetUnit ==
    LET v == <<80, 0 - 80, 60>>
        len == ISqrt(LengthSquared(v) * 10000)
    IN  <<DivTrunc(v[1] * 10000000, len), DivTrunc(v[2] * 10000000, len),
          DivTrunc(v[3] * 10000000, len)>>

\* camera_offset = Vector((0.8, -0.8, 0.6)).normalized() * distance
CameraOffset(distance) ==
    <<DivTrunc(CameraOffsetUnit[1] * distance, 100000),
      DivTrunc(CameraOffsetUnit[2] * distance, 100000),
      DivTrunc(CameraOffsetUnit[3] * distance, 100000)>>

\* look_at(obj, target): the object's -Z axis is turned towards the target
\* unless the object is at the target.  An orientation is written as the
\* unit vector its -Z axis points along.
LookAt(location, dir, target) ==
    IF LengthSquared(VSub(target, location)) = 0
    THEN dir
    ELSE Normalized(VSub(target, location))

\* frame_objects(target_objects): the scene camera after the call
FrameObjects(targets, camera) ==
    IF ValidTargets(targets) = <<>>
    THEN camera
    ELSE IF ~camera.present
    THEN camera
    ELSE LET fr == Framing(targets)
             location == VAdd(fr.center, CameraOffset(fr.distance))
         IN  [present |-> TRUE,
              location |-> location,
              dir |-> LookAt(location, camera.dir, fr.center)]

\* the scene camera before the call: none, the camera as camera_add makes
\* it (at the origin, looking down -Z) or a camera an earlier call placed
FrameCameras ==
    {NoCamera,
     [present |-> TRUE, location |-> <<0, 0, 0>>, dir |-> <<0, 0, 0 - 1000>>],
     FrameObjects(<<PointTarget("other", <<0, 0, 0>>, TRUE)>>,
                  [present |-> TRUE, location |-> <<0, 0, 0>>,
                   dir |-> <<0, 0, 0 - 1000>>])}

InitFrame ==
    /\ mode = "frame"
    /\ frTargets \in UNION {[1..n -> FrameTargets] : n \in 0..MaxTargets}
    /\ frBefore \in FrameCameras
    /\ frCamera = frBefore
    /\ frCalled = FALSE
    /\ frInfo = NoFraming
    /\ IdleSize
    /\ IdlePartition
    /\ IdleArrow
    /\ IdleExplode
    /\ IdleWatcher
    /\ IdleMain

\* one call of frame_objects(frTargets)
CallFrameObjects ==
    /\ mode = "frame"
    /\ ~frCalled
    /\ frCalled' = TRUE
    /\ frCamera' = FrameObjects(frTargets, frCamera)
    /\ frInfo' = IF ValidTargets(frTargets) = <<>> \/ ~frCamera.present
                 THEN NoFraming
                 ELSE Framing(frTargets)
    /\ UNCHANGED <<mode, sizeVars, partVars, arrowVars, explodeVars, watcherVars, mainVars,
                   frTargets, frBefore>>

NextFrame == CallFrameObjects

SpecFrame == InitFrame /\ [][NextFrame]_vars

\* frame_objects has returned
FrameCalled == mode = "frame" /\ frCalled

\* the targets of the call that are valid, and those of them that are
\* visible and of a kind that has bounds, told from the arguments alone
ValidIndices == {k \in DOMAIN frTargets : frTargets[k].valid}
BoundedIndices ==
    {k \in ValidIndices :
        /\ ~frTargets[k].hidden
        /\ frTargets[k].kind \in {"mesh", "empty", "light"}}

\* C16 as stated: frame_objects leaves the camera's location and
\* orientation unchanged both when the list holds no valid object and when
\* no valid object yields bounding information.
C16_NoOpWithoutTargetsOrBounds ==
    (FrameCalled /\ (ValidIndices = {} \/ BoundedIndices = {}))
        => frCamera = frBefore

\* C16 as the code has it: frame_objects leaves the camera unchanged when
\* the list holds no valid object; when there are valid objects but none
\* yields bounding information, it frames the default region instead: the
\* camera is put at distance 5.0 * CAMERA_DISTANCE_FACTOR = 7.5 from the
\* origin and turned towards the origin.
C16_NoOpWithoutTargetsDefaultWithoutBounds ==
    FrameCalled =>
        /\ ValidIndices = {} => frCamera = frBefore
        /\ (ValidIndices # {} /\ BoundedIndices = {} /\ frBefore.present) =>
               /\ frInfo.center = <<0, 0, 0>>
               /\ frInfo.size = DEFAULT_FRAME_SIZE
               /\ frInfo.distance = 7500
               /\ frCamera.location = CameraOffset(7500)
               /\ frCamera.dir = Normalized(VSub(<<0, 0, 0>>, frCamera.location))

\* a call with valid targets none of which yields bounds has moved a camera
\* that was elsewhere
C16_Witness ==
    /\ FrameCalled /\ frBefore.present
    /\ ValidIndices # {} /\ BoundedIndices = {}
    /\ frCamera # frBefore

\* C17: when bounds are found, center is the midpoint of the least and the
\* greatest corner over the objects that have bounds, size is the length of
\* their difference or 0.5 if that is more, and the camera is at distance
\* size * CAMERA_DISTANCE_FACTOR from the center (here within 0.002, the
\* rounding of the coordinates); for a single part of bounding diagonal d,
\* size >= max(d, 0.5).
C17_FramingFromBounds ==
    (FrameCalled /\ frBefore.present /\ BoundedIndices # {}) =>
        LET lo == [c \in 1..3 |->
                      SetMin({frTargets[k].lo[c] : k \in BoundedIndices})]
            hi == [c \in 1..3 |->
                      SetMax({frTargets[k].hi[c] : k \in BoundedIndices})]
            diagonal == Length(VSub(hi, lo))
            away == Length(VSub(frCamera.location, frInfo.center))
        IN  /\ frInfo.found
            /\ \A c \in 1..3 : 2 * frInfo.center[c] = lo[c] + hi[c]
            /\ frInfo.size = IF diagonal > 500 THEN diagonal ELSE 500
            /\ frInfo.distance * 10 <= frInfo.size * 15
            /\ frInfo.distance * 10 > frInfo.size * 15 - 10
            /\ away - frInfo.distance \in (0 - 2)..2
            /\ (Cardinality(BoundedIndices) = 1 /\ Len(frTargets) = 1) =>
                   \A k \in BoundedIndices :
                       /\ frInfo.size >= Length(VSub(frTargets[k].hi,
                                                     frTargets[k].lo))
                       /\ frInfo.size >= 500

\* two objects with bounds have been framed and the size is above the
\* minimum
C17_Witness ==
    /\ FrameCalled /\ frBefore.present
    /\ Cardinality(BoundedIndices) = 2
    /\ frInfo.found /\ frInfo.size > MIN_FRAME_SIZE

(***************************************************************************)
(* main(): the imported model                                              *)
(***************************************************************************)
\* A name is <<base, number, suffix>>: <<"Part", 1, 0>> is "Part 1",
\* <<"Part", 1, 1>> is "Part 1.001", <<"Cube", 0, 1>> is "Cube.001".
\*
\* The parts a model may be made of.  oname is the name the part has when
\* separate_and_get_parts returns it, ptype what the heuristic of
\* assign_materials_and_names makes of its dimensions ("part" for a cube,
\* "leg" for a part five times as tall as wide, capitalised as in the
\* generated name), pos its location and dims its dimensions.  Two parts
\* carry names an earlier run of the same naming scheme would have given.
CubeDims == <<SizeOne, SizeOne, SizeOne>>
LegDims == <<SizeOne \div 5, SizeOne \div 5, SizeOne>>

PartCatalog ==
    {[oname |-> <<"Cube", 0, 0>>, ptype |-> "Part", pos |-> <<0, 0, 0>>,
      dims |-> CubeDims],
     [oname |-> <<"Part", 1, 0>>, ptype |-> "Part", pos |-> <<1000, 0, 0>>,
      dims |-> CubeDims],
     [oname |-> <<"Part", 2, 0>>, ptype |-> "Part", pos |-> <<0, 1000, 0>>,
      dims |-> CubeDims],
     [oname |-> <<"Cube", 0, 1>>, ptype |-> "Leg", pos |-> <<1000, 1000, 0>>,
      dims |-> LegDims],
     [oname |-> <<"Leg", 1, 0>>, ptype |-> "Leg", pos |-> <<0, 0, 1000>>,
      dims |-> LegDims]}

MaxParts == 4

\* parts.sort(key=lambda obj: obj.location.z): the list is in ascending z
SortedByZ(parts) ==
    \A a, b \in 1..Len(parts) : a < b => parts[a].pos[3] <= parts[b].pos[3]

\* the part lists separate_and_get_parts can return: distinct objects (so
\* distinct names), sorted by z; the empty list when no mesh was found
ModelInputs ==
    UNION {{parts \in [1..n -> PartCatalog] :
                /\ \A a, b \in 1..n : a # b => parts[a] # parts[b]
                /\ SortedByZ(parts)} : n \in 0..MaxParts}

NumParts == Len(model)
PartIndices == 0..(NumParts - 1)
\* parts[j], for the 0-based list index j of the script
PartAt(j) == model[j + 1]
PartObject(j) == [kind |-> "Object", dims |-> PartAt(j).dims]

\* a size (sixths of 1e-6) as a length in units of 1e-3
SizeToMilli(size) == size \div (1000 * Micro)

PartId(j) == <<"part", 0, j>>
ArrowId(stepNo, j) == <<"arrow", stepNo, j>>
MarkerId(stepNo, j) == <<"marker", stepNo, j>>
\* the three lights of LIGHTS_CONFIG and the camera that setup_scene adds
SetupObjects == {<<"light", 0, 0>>, <<"light", 0, 1>>, <<"light", 0, 2>>,
                 <<"camera", 0, 0>>}

Objects == DOMAIN hideRender
VisibleIn(hr) == {o \in DOMAIN hr : ~hr[o]}

\* render_image: the image written, the objects with hide_render False and
\* where the parts are at that moment
Rendered(image, num, hr, locs) ==
    [image |-> image, num |-> num, visible |-> VisibleIn(hr), locs |-> locs]

\* the scene operations of the step loop that may raise in a run: the
\* marker's empty_add and the operations inside create_arrow
MainFailures == {"empty_add", "cylinder_add", "cone_add", "join"}
FailureChoices(n) ==
    {[op |-> "none", part |-> 0]}
    \cup {[op |-> o, part |-> j] : o \in MainFailures, j \in 0..(n - 1)}

\* TARGET_STEPS = 6
TARGET_STEPS == 6
\* the values of TARGET_STEPS the run is checked with: the configured one,
\* and 2, which makes steps of several parts
TargetStepsChoices == {2, TARGET_STEPS}

Init ==
    /\ mode = "main"
    /\ pc = "start"
    /\ model \in ModelInputs
    /\ targetSteps \in TargetStepsChoices
    /\ sceneFailure \in FailureChoices(Len(model))
    /\ partName = <<>> /\ partLoc = <<>> /\ hideRender = <<>>
    /\ base_positions = <<>> /\ metaParts = <<>>
    /\ step_i = 0 /\ step_size = 0 /\ active_parts_in_scene = <<>>
    /\ all_step_arrows = <<>> /\ current_step_arrows = <<>>
    /\ destinations = <<>> /\ step_data = <<>> /\ renders = <<>>
    /\ metadataWrites = <<>>
    /\ IdleSize
    /\ IdlePartition
    /\ IdleArrow
    /\ IdleFrame
    /\ IdleExplode
    /\ IdleWatcher

otherVars == <<mode, sizeVars, partVars, arrowVars, frameVars, explodeVars,
               watcherVars>>

\* clear_scene, import_model, separate_and_get_parts: sys.exit(1) when the
\* import fails or no part is found, else the parts are in the scene
ImportModel ==
    /\ mode = "main" /\ pc = "start"
    /\ \E importOk \in BOOLEAN :
          IF ~importOk \/ model = <<>>
          THEN /\ pc' = "exited"
               /\ UNCHANGED <<partName, partLoc, hideRender>>
          ELSE /\ pc' = "record"
               /\ partName' = [j \in PartIndices |-> PartAt(j).oname]
               /\ partLoc' = [j \in PartIndices |-> PartAt(j).pos]
               /\ hideRender' = [o \in {PartId(j) : j \in PartIndices} |-> FALSE]
    /\ UNCHANGED <<otherVars, model, targetSteps, sceneFailure,
                   base_positions, metaParts, step_i, step_size,
                   active_parts_in_scene, all_step_arrows,
                   current_step_arrows, destinations, step_data, renders,
                   metadataWrites>>

\* base_positions = {p.name: p.location.copy() for p in parts if p}
BasePositionsOf(names, locs) ==
    [nm \in {names[j] : j \in DOMAIN names} |->
        locs[CHOOSE j \in DOMAIN names : names[j] = nm]]

\* the positions are recorded and every part is hidden
RecordBasePositions ==
    /\ mode = "main" /\ pc = "record"
    /\ base_positions' = BasePositionsOf(partName, partLoc)
    /\ hideRender' = [o \in Objects |-> TRUE]
    /\ pc' = "assign"
    /\ UNCHANGED <<otherVars, model, targetSteps, sceneFailure, partName,
                   partLoc, metaParts, step_i, step_size,
                   active_parts_in_scene, all_step_arrows,
                   current_step_arrows, destinations, step_data, renders,
                   metadataWrites>>

\* what Blender makes of "part.name = wanted" when taken are the names of
\* the other objects: the name itself, or the name with the first free
\* numeric suffix
UniqueName(wanted, taken) ==
    IF wanted \notin taken
    THEN wanted
    ELSE <<wanted[1], wanted[2],
           CHOOSE k \in 1..(Cardinality(taken) + 1) :
               /\ <<wanted[1], wanted[2], k>> \notin taken
               /\ \A h \in 1..(k - 1) : <<wanted[1], wanted[2], h>> \in taken>>

\* part_name = f"{part_type.capitalize()} {part_number_in_type}"
GeneratedName(ptype, number) == <<ptype, number, 0>>

\* the loop of assign_materials_and_names from list index j on: names are
\* the part names so far, counts is part_counts
RECURSIVE NamesAssignedFrom(_, _, _)
NamesAssignedFrom(j, names, counts) ==
    IF j \notin DOMAIN names
    THEN names
    ELSE LET ptype == PartAt(j).ptype
             number == counts[ptype] + 1
             taken == {names[k] : k \in DOMAIN names \ {j}}
             given == UniqueName(GeneratedName(ptype, number), taken)
         IN  NamesAssignedFrom(j + 1, [names EXCEPT ![j] = given],
                               [counts EXCEPT ![ptype] = number])

PartTypes == {"Part", "Leg"}

\* assign_materials_and_names(parts): every part is renamed, and
\* metadata['parts'] lists the parts by their new names, numbered P001...
AssignMaterialsAndNames ==
    /\ mode = "main" /\ pc = "assign"
    /\ partName' = NamesAssignedFrom(0, partName, [t \in PartTypes |-> 0])
    /\ metaParts' = [k \in 1..NumParts |->
                        [blender_name |-> partName'[k - 1], number |-> k]]
    /\ pc' = "overview"
    /\ UNCHANGED <<otherVars, model, targetSteps, sceneFailure, partLoc,
                   hideRender, base_positions, step_i, step_size,
                   active_parts_in_scene, all_step_arrows,
                   current_step_arrows, destinations, step_data, renders,
                   metadataWrites>>

\* "if part.name in base_positions: part.location =
\* base_positions[part.name].copy()", for every part
\* a plausible slip: a part without an entry is put at the origin
ResetToBase_OriginIfMissing(names, locs, table) ==
    [j \in DOMAIN locs |->
        IF names[j] \in DOMAIN table THEN table[names[j]] ELSE <<0, 0, 0>>]

ResetToBase(names, locs, table) ==
    [j \in DOMAIN locs |->
        IF names[j] \in DOMAIN table THEN table[names[j]] ELSE locs[j]]

\* setup_scene adds the lights and the camera; every part is made visible
\* and reset; the overview is rendered
RenderOverview ==
    /\ mode = "main" /\ pc = "overview"
    /\ hideRender' = [o \in Objects \cup SetupObjects |-> FALSE]
    /\ partLoc' = ResetToBase(partName, partLoc, base_positions)
    /\ renders' = Append(renders, Rendered("overview", 0, hideRender', partLoc'))
    /\ pc' = "diagram"
    /\ UNCHANGED <<otherVars, model, targetSteps, sceneFailure, partName,
                   base_positions, metaParts, step_i, step_size,
                   active_parts_in_scene, all_step_arrows,
                   current_step_arrows, destinations, step_data,
                   metadataWrites>>

\* math.ceil(math.sqrt(n))
CeilSqrt(n) == CHOOSE g \in 0..n : g * g >= n /\ \A h \in 0..(g - 1) : h * h < n

\* spacing = max(avg_part_size * 2.5, 1.5), in units of 1e-3, with
\* avg_part_size = sum(get_object_size(p) for p in parts) / total_parts
GridSpacing ==
    LET sizes == [k \in 1..NumParts |-> GetObjectSize(PartObject(k - 1))]
        avg == SizeToMilli(SumSeq(sizes) \div NumParts)
    IN  Max((avg * 5) \div 2, 1500)

\* the location of part i in the parts diagram
GridLocation(idx) ==
    LET grid_size == CeilSqrt(NumParts)
        row == idx \div grid_size
        col == idx % grid_size
    IN  <<col * GridSpacing, 0 - (row * GridSpacing), 0>>

\* the parts are laid out in a grid, made visible and rendered
RenderPartsDiagram ==
    /\ mode = "main" /\ pc = "diagram"
    /\ partLoc' = [j \in PartIndices |-> GridLocation(j)]
    /\ hideRender' = [o \in Objects |->
                         IF o[1] = "part" THEN FALSE ELSE hideRender[o]]
    /\ renders' = Append(renders,
                         Rendered("parts_diagram", 0, hideRender', partLoc'))
    /\ pc' = "steps"
    /\ UNCHANGED <<otherVars, model, targetSteps, sceneFailure, partName,
                   base_positions, metaParts, step_i, step_size,
                   active_parts_in_scene, all_step_arrows,
                   current_step_arrows, destinations, step_data,
                   metadataWrites>>

\* active_parts_in_scene, all_step_arrows and step_data start empty and
\* step_size is computed
BeginSteps ==
    /\ mode = "main" /\ pc = "steps"
    /\ active_parts_in_scene' = <<>>
    /\ all_step_arrows' = <<>>
    /\ step_data' = <<>>
    /\ step_size' = StepSize(NumParts, targetSteps)
    /\ step_i' = 0
    /\ pc' = "loop"
    /\ UNCHANGED <<otherVars, model, targetSteps, sceneFailure, partName,
                   partLoc, hideRender, base_positions, metaParts,
                   current_step_arrows, destinations, renders,
                   metadataWrites>>

\* the loop is entered for step_i: "Reset ALL parts to base positions
\* before calculating explosion for *this* step"
StepReset ==
    /\ mode = "main" /\ pc = "loop"
    /\ StepLoopContinues(step_i, NumParts)
    /\ partLoc' = ResetToBase(partName, partLoc, base_positions)
    /\ pc' = "explode"
    /\ UNCHANGED <<otherVars, model, targetSteps, sceneFailure, partName,
                   hideRender, base_positions, metaParts, step_i, step_size,
                   active_parts_in_scene, all_step_arrows,
                   current_step_arrows, destinations, step_data, renders,
                   metadataWrites>>

RECURSIVE VSum(_)
VSum(vs) == IF vs = <<>> THEN <<0, 0, 0>> ELSE VAdd(Head(vs), VSum(Tail(vs)))

\* assembled_center: the mean location of the already assembled parts whose
\* name is in base_positions, the zero vector when there is none
AssembledCenter(assembled, names, locs, table) ==
    LET valid_assembled ==
            SelectSeq(assembled, LAMBDA j : names[j] \in DOMAIN table)
    IN  IF valid_assembled = <<>>
        THEN <<0, 0, 0>>
        ELSE VDiv(VSum([k \in 1..Len(valid_assembled) |->
                            locs[valid_assembled[k]]]),
                  Len(valid_assembled))

\* Vector((math.cos(j*0.5)*0.5, math.sin(j*0.5)*0.5, 1.0)), rounded to 1e-3
PseudoRadial(j) ==
    CASE j = 0 -> <<500, 0, 1000>>
      [] j = 1 -> <<439, 240, 1000>>
      [] j = 2 -> <<270, 421, 1000>>
      [] j = 3 -> <<35, 499, 1000>>
      [] j = 4 -> <<0 - 208, 455, 1000>>
      [] j = 5 -> <<0 - 401, 299, 1000>>
      [] j = 6 -> <<0 - 495, 71, 1000>>
      [] OTHER -> <<0 - 468, 0 - 175, 1000>>

\* explode_direction of part j: away from the assembled centre, the
\* pseudo-radial direction when the part is within 0.1 of it, normalised
ExplodeDirection(base, center, j) ==
    LET away == VSub(base, center)
        direction == IF LengthSquared(away) < 100 * 100
                     THEN PseudoRadial(j)
                     ELSE away
    IN  IF direction # <<0, 0, 0>>
        THEN Normalized(direction)
        ELSE <<0, 0, 1000>>

\* EXPLODE_FACTOR = 0.8 and MAX_EXPLODE_DISTANCE = 10.0, in units of 1e-3
EXPLODE_FACTOR == 800
MAX_EXPLODE_DISTANCE == 10000

\* a plausible slip: the cap left out
ExplodeDistanceWith_Uncapped(factor, j, total) ==
    (factor * (total + 4 * (total - j))) \div total

\* distance = min(EXPLODE_FACTOR * (1 + parts_remaining_factor * 4),
\*                MAX_EXPLODE_DISTANCE)
\* with parts_remaining_factor = (num_total_parts - j) / num_total_parts,
\* for a given value of EXPLODE_FACTOR
ExplodeDistanceWith(factor, j, total) ==
    Min((factor * (total + 4 * (total - j))) \div total, MAX_EXPLODE_DISTANCE)

ExplodeDistance(j, total) == ExplodeDistanceWith(EXPLODE_FACTOR, j, total)

\* EXPLODE_FACTOR * 0.8 * (1 + parts_remaining_factor) * get_object_size(part)
VerticalLiftWith(factor, j, total, size) ==
    (factor * 8 * (2 * total - j) * SizeToMilli(size)) \div (10 * total * 1000)

VerticalLift(j, total, size) == VerticalLiftWith(EXPLODE_FACTOR, j, total, size)

\* what the explosion computes for part j: the direction, the distance,
\* the vertical lift and the location it assigns
Explosion(factor, base, center, j, total, size) ==
    LET direction == ExplodeDirection(base, center, j)
        distance == ExplodeDistanceWith(factor, j, total)
        lift == VerticalLiftWith(factor, j, total, size)
    IN  [direction |-> direction,
         distance |-> distance,
         lift |-> lift,
         location |-> VAdd(VAdd(base, Scaled(direction, distance)),
                           <<0, 0, lift>>)]

\* the location the explosion gives part j
ExplodedLocation(base, center, j, total, size) ==
    Explosion(EXPLODE_FACTOR, base, center, j, total, size).location

\* The explosion loop on its own: total parts with base positions exBases
\* and sizes exSizes, of which those of index >= exI are not yet
\* assembled.  EXPLODE_FACTOR is the script's 0.8 or a larger setting with
\* which the cap of the distance is reached.
MaxExplodeParts == 4
ExplodeFactors == {EXPLODE_FACTOR, 3000}
\* base positions on and off the axes, one of them below the origin; sizes
\* from a quarter of a unit to six units
ExplodeBases == {<<0, 0, 0>>, <<1000, 0, 0>>, <<0, 0, 1000>>, <<0, 0, 0 - 1000>>}
ExplodeCenters == {<<0, 0, 0>>, <<1000, 0, 50>>}
ExplodeSizes == {SizeOne, SizeOne \div 4, 3125 * 1000 * Micro, 6 * SizeOne}

InitExplode ==
    /\ mode = "explode"
    /\ exFactor \in ExplodeFactors
    /\ \E n \in 1..MaxExplodeParts :
          /\ exBases \in [0..(n - 1) -> ExplodeBases]
          /\ \E s \in ExplodeSizes : exSizes = [j \in 0..(n - 1) |-> s]
          /\ exI \in 0..(n - 1)
    /\ exCenter \in ExplodeCenters
    /\ exResult = <<>>
    /\ exDone = FALSE
    /\ IdleSize
    /\ IdlePartition
    /\ IdleArrow
    /\ IdleFrame
    /\ IdleMain
    /\ IdleWatcher

\* "for j, part in enumerate(parts)": every part of index >= i is exploded
ExplodeParts ==
    /\ mode = "explode"
    /\ ~exDone
    /\ exDone' = TRUE
    /\ exResult' =
          [j \in {k \in DOMAIN exBases : k >= exI} |->
              Explosion(exFactor, exBases[j], exCenter, j,
                        Cardinality(DOMAIN exBases), exSizes[j])]
    /\ UNCHANGED <<mode, sizeVars, partVars, arrowVars, frameVars, mainVars, watcherVars,
                   exFactor, exBases, exSizes, exI, exCenter>>

NextExplode == ExplodeParts

SpecExplode == InitExplode /\ [][NextExplode]_vars

TableAfterExplosion_WrittenThrough(table, names, locs) ==
    [nm \in DOMAIN table |->
        IF \E j \in DOMAIN names : names[j] = nm
        THEN locs[CHOOSE j \in DOMAIN names : names[j] = nm]
        ELSE table[nm]]

\* base_positions after the explosion has moved the parts to locs: the
\* loop reads the table (base_positions[part.name] + offset makes a new
\* vector) and assigns to part.location only
TableAfterExplosion(table, names, locs) == table

\* every part not yet assembled whose name is in base_positions is moved
\* to its exploded location
StepExplode ==
    /\ mode = "main" /\ pc = "explode"
    /\ LET center == AssembledCenter(active_parts_in_scene, partName, partLoc,
                                     base_positions)
       IN  partLoc' =
             [j \in PartIndices |->
                IF j >= step_i /\ partName[j] \in DOMAIN base_positions
                THEN ExplodedLocation(base_positions[partName[j]], center, j,
                                      NumParts, GetObjectSize(PartObject(j)))
                ELSE partLoc[j]]
    /\ base_positions' = TableAfterExplosion(base_positions, partName, partLoc')
    /\ pc' = "arrows"
    /\ UNCHANGED <<otherVars, model, targetSteps, sceneFailure, partName,
                   hideRender, metaParts, step_i, step_size,
                   active_parts_in_scene, all_step_arrows,
                   current_step_arrows, destinations, step_data, renders,
                   metadataWrites>>

\* step_num + 1, the number in the names of the step's arrows and markers
StepNo == StepNum(step_i, step_size) + 1

ThisStepIndices == PartsInThisStepIndices(step_i, step_size, NumParts)

\* the operation of create_arrow that raises for part idx in this run
ArrowFailureFor(idx) ==
    IF sceneFailure.part = idx /\ sceneFailure.op \in ArrowFailures
    THEN sceneFailure.op
    ELSE "none"

\* the destination marker of part idx: an empty at the destination with
\* empty_display_size = max(0.1, get_object_size(part) * 0.3)
MarkerObject(idx, destination) ==
    [name |-> MarkerId(StepNo, idx), loc |-> destination,
     size |-> Max(100, (SizeToMilli(GetObjectSize(PartObject(idx))) * 3)
                           \div 10)]

\* one iteration of "for idx in parts_in_this_step_indices": a part whose
\* name is not in base_positions is skipped; a part whose marker cannot be
\* made gets no arrow; acc holds the markers and arrows so far
AfterPartHandled(acc, idx) ==
    IF partName[idx] \notin DOMAIN base_positions
    THEN acc
    ELSE IF sceneFailure = [op |-> "empty_add", part |-> idx]
         THEN acc
         ELSE [markers |-> Append(acc.markers,
                                  MarkerObject(idx,
                                               base_positions[partName[idx]])),
               arrows |-> ArrowsAfterPart(acc.arrows, ArrowId(StepNo, idx),
                                          partLoc[idx],
                                          base_positions[partName[idx]],
                                          PartObject(idx),
                                          ArrowFailureFor(idx))]

RECURSIVE AfterPartsHandled(_, _)
AfterPartsHandled(acc, indices) ==
    IF indices = <<>>
    THEN acc
    ELSE AfterPartsHandled(AfterPartHandled(acc, Head(indices)), Tail(indices))

NamesOf(objs) == {objs[k].name : k \in 1..Len(objs)}

\* the markers and arrows of the step's new parts are made
StepArrows ==
    /\ mode = "main" /\ pc = "arrows"
    /\ LET made == AfterPartsHandled([markers |-> <<>>, arrows |-> <<>>],
                                     ThisStepIndices)
       IN  /\ destinations' = made.markers
           /\ current_step_arrows' = made.arrows
           /\ all_step_arrows' = all_step_arrows \o made.arrows
           /\ hideRender' =
                [o \in Objects \cup NamesOf(made.markers)
                       \cup NamesOf(made.arrows) |->
                    IF o \in Objects THEN hideRender[o] ELSE FALSE]
    /\ pc' = "render"
    /\ UNCHANGED <<otherVars, model, targetSteps, sceneFailure, partName,
                   partLoc, base_positions, metaParts, step_i, step_size,
                   active_parts_in_scene, step_data, renders, metadataWrites>>

SeqToSet(q) == {q[k] : k \in 1..Len(q)}

\* objects_to_render_this_step: the assembled parts whose name is in
\* base_positions, the parts of this step and the arrows of this step
ObjectsToRenderThisStep ==
    {PartId(j) : j \in {a \in SeqToSet(active_parts_in_scene) :
                           partName[a] \in DOMAIN base_positions}}
    \cup {PartId(j) : j \in SeqToSet(ThisStepIndices)}
    \cup NamesOf(current_step_arrows)

\* "for obj in bpy.data.objects": hide_render is False for the objects to
\* render and True for every other object of the scene
HiddenForStep(hr, shown) == [o \in DOMAIN hr |-> o \notin shown]

\* the assembled parts are put at their base positions, the visibility is
\* set and the step image is rendered
StepRender ==
    /\ mode = "main" /\ pc = "render"
    /\ partLoc' =
         [j \in PartIndices |->
            IF j \in SeqToSet(active_parts_in_scene)
               /\ partName[j] \in DOMAIN base_positions
            THEN base_positions[partName[j]]
            ELSE partLoc[j]]
    /\ hideRender' = HiddenForStep(hideRender, ObjectsToRenderThisStep)
    /\ renders' = Append(renders,
                         Rendered("step", StepNum(step_i, step_size),
                                  hideRender', partLoc'))
    /\ pc' = "finish"
    /\ UNCHANGED <<otherVars, model, targetSteps, sceneFailure, partName,
                   base_positions, metaParts, step_i, step_size,
                   active_parts_in_scene, all_step_arrows,
                   current_step_arrows, destinations, step_data,
                   metadataWrites>>

\* the entry of step_data for the step: the ids of the parts of
\* metadata['parts'] whose blender_name is the name of a part of this step
StepEntry ==
    LET names == {partName[j] : j \in SeqToSet(ThisStepIndices)}
        step_parts_info ==
            SelectSeq(metaParts, LAMBDA info : info.blender_name \in names)
    IN  [image |-> <<"step", StepNum(step_i, step_size)>>,
         caption |-> IF step_i = 0 THEN "Start assembly with"
                     ELSE "Attach as shown",
         parts_added_ids |-> [k \in 1..Len(step_parts_info) |->
                                 step_parts_info[k].number]]

\* the markers are removed, the parts of the step join the assembled ones,
\* the step's metadata is stored and the loop goes on to the next i
StepFinish ==
    /\ mode = "main" /\ pc = "finish"
    /\ hideRender' = [o \in Objects \ NamesOf(destinations) |-> hideRender[o]]
    /\ destinations' = <<>>
    /\ active_parts_in_scene' = active_parts_in_scene \o ThisStepIndices
    /\ step_data' = Append(step_data, StepEntry)
    /\ step_i' = step_i + step_size
    /\ pc' = "loop"
    /\ UNCHANGED <<otherVars, model, targetSteps, sceneFailure, partName,
                   partLoc, base_positions, metaParts, step_size,
                   all_step_arrows, current_step_arrows, renders,
                   metadataWrites>>

\* a plausible slip: the arrows are not removed from the scene
SceneAfterArrowCleanup_Kept(hr, arrows) == hr

\* "Hide/Remove all arrows created during steps": every arrow of
\* all_step_arrows that is in bpy.data.objects is removed
SceneAfterArrowCleanup(hr, arrows) ==
    [o \in DOMAIN hr \ NamesOf(arrows) |-> hr[o]]

\* the last entry of step_data
FinalEntry ==
    [image |-> <<"final_assembly", 0>>, caption |-> "Assembly complete.",
     parts_added_ids |-> <<>>]

\* after the loop: the parts whose name is in base_positions are reset and
\* shown, the arrows are removed, every object that is neither a part, a
\* light nor the camera is hidden, the final image is rendered and the
\* final entry is added
FinalAssembly ==
    /\ mode = "main" /\ pc = "loop"
    /\ ~StepLoopContinues(step_i, NumParts)
    /\ partLoc' = ResetToBase(partName, partLoc, base_positions)
    /\ LET shown == [o \in Objects |->
                        IF o[1] = "part"
                           /\ partName[o[3]] \in DOMAIN base_positions
                        THEN FALSE
                        ELSE hideRender[o]]
           cleaned == SceneAfterArrowCleanup(shown, all_step_arrows)
       IN  hideRender' =
             [o \in DOMAIN cleaned |->
                IF o[1] \notin {"part", "light", "camera"}
                THEN TRUE
                ELSE cleaned[o]]
    /\ all_step_arrows' = <<>>
    /\ renders' = Append(renders,
                         Rendered("final_assembly", 0, hideRender', partLoc'))
    /\ step_data' = Append(step_data, FinalEntry)
    /\ pc' = "save"
    /\ UNCHANGED <<otherVars, model, targetSteps, sceneFailure, partName,
                   base_positions, metaParts, step_i, step_size,
                   active_parts_in_scene, current_step_arrows, destinations,
                   metadataWrites>>

\* a plausible slip: the document written before the steps are put in
MetadataDocument_WithoutSteps(parts, steps) == [parts |-> parts, steps |-> <<>>]

\* the document json.dump writes: metadata with metadata['steps'] = step_data
MetadataDocument(parts, steps) == [parts |-> parts, steps |-> steps]

\* metadata['steps'] = step_data and metadata.json is written
SaveMetadata ==
    /\ mode = "main" /\ pc = "save"
    /\ metadataWrites' = Append(metadataWrites,
                                MetadataDocument(metaParts, step_data))
    /\ pc' = "done"
    /\ UNCHANGED <<otherVars, model, targetSteps, sceneFailure, partName,
                   partLoc, hideRender, base_positions, metaParts, step_i,
                   step_size, active_parts_in_scene, all_step_arrows,
                   current_step_arrows, destinations, step_data, renders>>

Next == ImportModel \/ RecordBasePositions \/ AssignMaterialsAndNames
        \/ RenderOverview \/ RenderPartsDiagram \/ BeginSteps \/ StepReset
        \/ StepExplode \/ StepArrows \/ StepRender \/ StepFinish
        \/ FinalAssembly \/ SaveMetadata

Spec == Init /\ [][Next]_vars

(***************************************************************************)
(* scripts/watcher.py: the cache of processed hashes, the initial scan    *)
(* and the handler of the file events.  A file name is a record of its    *)
(* stem, its extension as written and whether it starts with a dot; a     *)
(* SHA-256 is one of the numbers 1..MaxHashes.                             *)
(***************************************************************************)
MaxHashes == 2
MaxWrites == 2
MaxRestarts == 1

\* get_file_hash returns None: the file is missing or cannot be read
NoHash == 0
Hashes == 1..MaxHashes

SUPPORTED_EXTENSIONS ==
    {".fbx", ".glb", ".gltf", ".step", ".stp", ".stl", ".obj"}

\* the model files of the directory
ModelNames ==
    {[stem |-> "chair", ext |-> ".stl", hidden |-> FALSE],
     [stem |-> "table", ext |-> ".OBJ", hidden |-> FALSE]}
\* a hidden file with a model extension and a file that is no model
OtherNames ==
    {[stem |-> ".tmp", ext |-> ".stl", hidden |-> TRUE],
     [stem |-> "notes", ext |-> ".txt", hidden |-> FALSE]}
DirectoryName == [stem |-> "old", ext |-> ".stl", hidden |-> FALSE]

\* str.lower() of an extension
Lower(ext) ==
    CASE ext = ".OBJ" -> ".obj"
      [] ext = ".STL" -> ".stl"
      [] OTHER -> ext

\* "file_name.startswith('.') or file_ext not in SUPPORTED_EXTENSIONS" is
\* false: the name is one the watcher handles
Accepted(name) == ~name.hidden /\ Lower(name.ext) \in SUPPORTED_EXTENSIONS

\* get_file_hash(file_path)
GetFileHash(files, name) ==
    IF name \in DOMAIN files THEN files[name] ELSE NoHash

\* how a run of the two scripts for one file can end
Outcomes == {"ok", "pdf_fail", "blender_fail", "scripts_missing"}

\* process_model(file_path): the keys of cache.json afterwards and the
\* record of the call; the hash is written to cache.json when the Blender
\* step has succeeded, whether or not the PDF step has
ProcessModel(name, files, disk, outcome) ==
    LET file_hash == GetFileHash(files, name)
        result == IF file_hash = NoHash THEN "no_hash"
                  ELSE IF file_hash \in disk THEN "cached"
                  ELSE outcome
    IN  [disk |-> IF result \in {"ok", "pdf_fail"}
                  THEN disk \cup {file_hash}
                  ELSE disk,
         call |-> [name |-> name, hash |-> file_hash, result |-> result]]

\* the Blender step of the call has run and succeeded
BlenderSucceeded(call) == call.result \in {"ok", "pdf_fail"}

InitWatcher ==
    /\ mode = "watcher"
    /\ wPhase = "start"
    /\ wFiles \in [ModelNames -> {NoHash} \cup Hashes]
    /\ wDisk \in SUBSET Hashes
    /\ wBlenderOk = wDisk
    /\ wMem = {} /\ wRecent = {} /\ wScanLeft = {}
    /\ wQueue = <<>> /\ wCalls = <<>>
    /\ wWrites = 0 /\ wRestarts = 0
    /\ IdleSize
    /\ IdlePartition
    /\ IdleArrow
    /\ IdleFrame
    /\ IdleExplode
    /\ IdleMain

watcherOthers == <<mode, sizeVars, partVars, arrowVars, frameVars,
                   explodeVars, mainVars>>

\* main(): cache = load_cache(), then initial_scan lists the directory
StartWatcher ==
    /\ mode = "watcher" /\ wPhase = "start"
    /\ wPhase' = "scan"
    /\ wMem' = wDisk
    /\ wScanLeft' = ModelNames \cup OtherNames
    /\ UNCHANGED <<watcherOthers, wFiles, wDisk, wRecent, wQueue, wCalls,
                   wBlenderOk, wWrites, wRestarts>>

\* one iteration of initial_scan's loop, for a file name in listdir's order
ScanFile ==
    /\ mode = "watcher" /\ wPhase = "scan"
    /\ \E name \in wScanLeft :
          LET file_hash == GetFileHash(wFiles, name)
          IN  /\ wScanLeft' = wScanLeft \ {name}
              /\ IF Accepted(name) /\ file_hash # NoHash
                    /\ file_hash \notin wMem
                 THEN \E outcome \in Outcomes :
                         LET done == ProcessModel(name, wFiles, wDisk,
                                                  outcome)
                         IN  /\ wDisk' = done.disk
                             /\ wCalls' = Append(wCalls, done.call)
                             /\ wBlenderOk' =
                                   IF BlenderSucceeded(done.call)
                                   THEN wBlenderOk \cup {file_hash}
                                   ELSE wBlenderOk
                             /\ wMem' = wMem \cup {file_hash}
                 ELSE UNCHANGED <<wDisk, wCalls, wBlenderOk, wMem>>
    /\ UNCHANGED <<watcherOthers, wPhase, wFiles, wRecent, wQueue, wWrites,
                   wRestarts>>

\* initial_scan returns; the handler is made with the same dict and an
\* empty recently_processed, and the observer starts
ScanDone ==
    /\ mode = "watcher" /\ wPhase = "scan" /\ wScanLeft = {}
    /\ wPhase' = "watch"
    /\ wRecent' = {}
    /\ wQueue' = <<>>
    /\ UNCHANGED <<watcherOthers, wFiles, wDisk, wMem, wScanLeft, wCalls,
                   wBlenderOk, wWrites, wRestarts>>

\* someone writes new content to a model file, or removes it; the observer
\* queues a created or a modified event for a write
WriteFile ==
    /\ mode = "watcher" /\ wPhase = "watch" /\ wWrites < MaxWrites
    /\ wWrites' = wWrites + 1
    /\ \E name \in ModelNames, content \in {NoHash} \cup Hashes :
          /\ content # wFiles[name]
          /\ wFiles' = [wFiles EXCEPT ![name] = content]
          /\ wQueue' =
                IF content = NoHash THEN wQueue
                ELSE Append(wQueue,
                            [type |-> IF wFiles[name] = NoHash
                                      THEN "created" ELSE "modified",
                             name |-> name, is_directory |-> FALSE])
    /\ UNCHANGED <<watcherOthers, wPhase, wDisk, wMem, wRecent, wScanLeft,
                   wCalls, wBlenderOk, wRestarts>>

\* an event for a directory or for a file that is no model file
OtherEvent ==
    /\ mode = "watcher" /\ wPhase = "watch" /\ wWrites < MaxWrites
    /\ wWrites' = wWrites + 1
    /\ \E event \in [type : {"created", "modified"}, name : OtherNames,
                     is_directory : {FALSE}]
                    \cup [type : {"modified"}, name : {DirectoryName},
                          is_directory : {TRUE}] :
          wQueue' = Append(wQueue, event)
    /\ UNCHANGED <<watcherOthers, wPhase, wFiles, wDisk, wMem, wRecent,
                   wScanLeft, wCalls, wBlenderOk, wRestarts>>

\* on_created / on_modified: ModelFileHandler.process(event) for the next
\* event of the queue
HandleEvent ==
    /\ mode = "watcher" /\ wPhase = "watch" /\ wQueue # <<>>
    /\ wQueue' = Tail(wQueue)
    /\ LET event == Head(wQueue)
           file_path == event.name
           current_hash == GetFileHash(wFiles, file_path)
       IN  IF event.is_directory \/ ~Accepted(file_path)
              \/ file_path \in wRecent
           THEN UNCHANGED <<wDisk, wMem, wRecent, wCalls, wBlenderOk>>
           ELSE IF current_hash # NoHash /\ current_hash \in wMem
           THEN /\ wRecent' = wRecent \cup {file_path}
                /\ UNCHANGED <<wDisk, wMem, wCalls, wBlenderOk>>
           ELSE IF current_hash # NoHash
           THEN \E outcome \in Outcomes :
                   LET done == ProcessModel(file_path, wFiles, wDisk, outcome)
                   IN  /\ wDisk' = done.disk
                       /\ wCalls' = Append(wCalls, done.call)
                       /\ wBlenderOk' =
                             IF BlenderSucceeded(done.call)
                             THEN wBlenderOk \cup {current_hash}
                             ELSE wBlenderOk
                       /\ wMem' = wMem \cup {current_hash}
                       /\ wRecent' = wRecent \cup {file_path}
           ELSE UNCHANGED <<wDisk, wMem, wRecent, wCalls, wBlenderOk>>
    /\ UNCHANGED <<watcherOthers, wPhase, wFiles, wScanLeft, wWrites,
                   wRestarts>>

\* the watcher is stopped and started again: cache.json is what remains
Restart ==
    /\ mode = "watcher" /\ wPhase = "watch" /\ wRestarts < MaxRestarts
    /\ wRestarts' = wRestarts + 1
    /\ wPhase' = "start"
    /\ wMem' = {} /\ wRecent' = {} /\ wQueue' = <<>>
    /\ UNCHANGED <<watcherOthers, wFiles, wDisk, wScanLeft, wCalls,
                   wBlenderOk, wWrites>>

NextWatcher ==
    StartWatcher \/ ScanFile \/ ScanDone \/ WriteFile \/ OtherEvent
    \/ HandleEvent \/ Restart

SpecWatcher == InitWatcher /\ [][NextWatcher]_vars

\* the position recorded for part j at the start of main(): the entry
\* made for it, under the name it had then
RecordedBase(j) == base_positions[PartAt(j).oname]

AfterFinalRender == mode = "main" /\ pc \in {"save", "done"}

\* C2: before the exploded positions of a step are computed, every part's
\* location equals its recorded base position, in every step, after the
\* parts diagram has moved the parts and after the parts were renamed.
C2_AllPartsAtBaseBeforeExplosion ==
    (mode = "main" /\ pc = "explode") =>
        \A j \in PartIndices : partLoc[j] = RecordedBase(j)

\* C3: when the final-assembly image is rendered, every part of the list
\* is exactly at its base position.
C3_AllPartsAtBaseInFinalRender ==
    (mode = "main" /\ pc = "save") =>
        /\ renders[Len(renders)].image = "final_assembly"
        /\ \A j \in PartIndices :
              renders[Len(renders)].locs[j] = RecordedBase(j)

\* C4: the final step has no arrows: when the final-assembly image is
\* rendered no arrow object is left in the scene and none is shown in the
\* image, and the last entry of the steps has the caption "Assembly
\* complete." and an empty parts_added_ids, also in the document written.
C4_FinalStepHasNoArrows ==
    AfterFinalRender =>
        /\ \A o \in Objects : o[1] # "arrow"
        /\ \A o \in renders[Len(renders)].visible : o[1] # "arrow"
        /\ renders[Len(renders)].image = "final_assembly"
        /\ step_data[Len(step_data)].caption = "Assembly complete."
        /\ step_data[Len(step_data)].parts_added_ids = <<>>
        /\ \A k \in 1..Len(metadataWrites) :
              LET steps == metadataWrites[k].steps
              IN  /\ steps[Len(steps)].caption = "Assembly complete."
                  /\ steps[Len(steps)].parts_added_ids = <<>>

\* the final image has been rendered after two steps that each showed an
\* arrow
C4_Witness ==
    /\ AfterFinalRender
    /\ \E a, b \in 1..Len(renders) :
          /\ a < b
          /\ renders[a].image = "step" /\ renders[b].image = "step"
          /\ \E o \in renders[a].visible : o[1] = "arrow"
          /\ \E o \in renders[b].visible : o[1] = "arrow"

\* C6: the base-position table recorded at the start of main() is never
\* modified afterwards: from the recording on, through every reset,
\* explosion, arrow and marker creation and the final render, its keys are
\* the names the parts had when it was recorded and its values the
\* locations they had then.
C6_BasePositionsImmutable ==
    (mode = "main" /\ pc \notin {"start", "exited", "record"}) =>
        /\ DOMAIN base_positions = {PartAt(j).oname : j \in PartIndices}
        /\ \A j \in PartIndices : base_positions[PartAt(j).oname] = PartAt(j).pos

\* a step has exploded a part away from its table entry and has made its
\* arrow and marker
C6_Witness ==
    /\ mode = "main" /\ pc = "render"
    /\ current_step_arrows # <<>>
    /\ destinations # <<>>
    /\ \E j \in PartIndices :
          /\ partName[j] \in DOMAIN base_positions
          /\ partLoc[j] # base_positions[partName[j]]

\* at the start of the step whose first index is step_i the list of
\* assembled parts is the parts of index below step_i, in list order
AssembledAreEarlierParts ==
    (mode = "main" /\ pc = "explode") =>
        active_parts_in_scene = [k \in 1..step_i |-> k - 1]

\* C18: at the start of the step whose first index is i, the list of
\* already-assembled parts is exactly the parts with index < i, in list
\* order, and assembled_center is the arithmetic mean of those parts' base
\* positions, or the zero vector when i = 0.
C18_AssembledPartsAndCenter ==
    (mode = "main" /\ pc = "explode") =>
        /\ active_parts_in_scene = [k \in 1..step_i |-> k - 1]
        /\ AssembledCenter(active_parts_in_scene, partName, partLoc,
                           base_positions)
             = IF step_i = 0
               THEN <<0, 0, 0>>
               ELSE VDiv(VSum([k \in 1..step_i |-> RecordedBase(k - 1)]),
                         step_i)

\* the centre of the assembled parts as C18 has it: the mean of the base
\* positions of the parts of index below step_i
CenterOfEarlierBases ==
    IF step_i = 0
    THEN <<0, 0, 0>>
    ELSE VDiv(VSum([k \in 1..step_i |-> RecordedBase(k - 1)]), step_i)

\* C20: once a step has exploded the parts, the position of every part not
\* yet assembled (index j >= i) is basePos[j] + explodeDirection * distance
\* plus a lift along z (any lift that is not negative is accepted here).
C20_ExplodedPosition ==
    (mode = "main" /\ pc = "arrows") =>
        \A j \in PartIndices :
            j >= step_i =>
                LET direction == ExplodeDirection(RecordedBase(j),
                                                  CenterOfEarlierBases, j)
                    offset == Scaled(direction, ExplodeDistance(j, NumParts))
                    rest == VSub(VSub(partLoc[j], RecordedBase(j)), offset)
                IN  rest[1] = 0 /\ rest[2] = 0 /\ rest[3] >= 0

\* C21: in every step in which no scene operation fails, each newly
\* introduced part gets exactly one arrow, from the part's exploded position
\* in that step to its base position, which lies at least 0.01 away.
C21_OneArrowPerNewPart ==
    (mode = "main" /\ pc = "render" /\ sceneFailure.op = "none") =>
        /\ Len(current_step_arrows) = Len(ThisStepIndices)
        /\ \A k \in 1..Len(ThisStepIndices) :
              LET idx == ThisStepIndices[k]
              IN  /\ current_step_arrows[k].name = ArrowId(StepNo, idx)
                  /\ current_step_arrows[k].start = partLoc[idx]
                  /\ current_step_arrows[k].end = RecordedBase(idx)
                  /\ LengthSquared(VSub(partLoc[idx], RecordedBase(idx)))
                       >= 100

\* the second half of C21 for the explosion alone: every exploded position
\* is at least 0.01 away from the base position
ExplodedAwayFromBase ==
    (mode = "explode" /\ exDone) =>
        \A j \in DOMAIN exResult :
            LengthSquared(VSub(exResult[j].location, exBases[j])) >= 100

\* the parts whose current name is not a key of base_positions
SkippedParts == {j \in PartIndices : partName[j] \notin DOMAIN base_positions}

\* the numbers of the step images rendered so far
StepImagesRendered ==
    {renders[k].num : k \in {r \in 1..Len(renders) : renders[r].image = "step"}}

\* C22: a part whose name is not a key of the base-position table is
\* skipped in every step: it stays where the parts diagram put it (no
\* reset, no explosion) and no destination marker or arrow is made for it.
\* The run does not abort: the step loop ends only after the step of the
\* last slice, by then every step image and the final image have been
\* rendered, and the metadata is written.
C22_MissingBasePositionSkipped ==
    (mode = "main"
       /\ pc \in {"loop", "explode", "arrows", "render", "finish", "save",
                  "done"}) =>
        /\ \A j \in SkippedParts :
              /\ partLoc[j] = renders[2].locs[j]
              /\ \A o \in Objects : o[1] \in {"arrow", "marker"} => o[3] # j
        /\ pc = "loop" =>
              StepImagesRendered = 0..(CeilDiv(step_i, step_size) - 1)
        /\ pc \in {"save", "done"} =>
              /\ StepImagesRendered = 0..(CeilDiv(NumParts, step_size) - 1)
              /\ renders[Len(renders)].image = "final_assembly"
        /\ pc = "done" => Len(metadataWrites) = 1

\* a run is done in which a part was skipped and another was not, over at
\* least two steps
C22_Witness ==
    /\ mode = "main" /\ pc = "done"
    /\ SkippedParts # {} /\ SkippedParts # PartIndices
    /\ Cardinality(StepImagesRendered) >= 2

\* C23: metadata.json is written at most once per run, and only when every
\* assembly step and the final-assembly entry are in the steps; a run that
\* aborts (the import fails or the part list is empty) has rendered no
\* image and written no metadata.
C23_MetadataWrittenOnceAtEnd ==
    mode = "main" =>
        /\ Len(metadataWrites) <= 1
        /\ pc # "done" => metadataWrites = <<>>
        /\ metadataWrites # <<>> =>
              LET steps == metadataWrites[1].steps
                  count == CeilDiv(NumParts, step_size)
              IN  /\ steps = step_data
                  /\ Len(steps) = count + 1
                  /\ \A k \in 1..count : steps[k].image = <<"step", k - 1>>
                  /\ steps[count + 1].image = <<"final_assembly", 0>>
        /\ pc = "exited" => (renders = <<>> /\ metadataWrites = <<>>)

\* the metadata of a run of three steps has been written
C23_Witness ==
    /\ mode = "main" /\ pc = "done"
    /\ Len(metadataWrites) = 1
    /\ Len(metadataWrites[1].steps) = 4

\* C24: for every part and every part size, the exploded position, the
\* vertical lift included, is at most MAX_EXPLODE_DISTANCE away from the
\* part's base position.
C24_WithinMaxExplodeDistance ==
    (mode = "explode" /\ exDone) =>
        \A j \in DOMAIN exResult :
            LengthSquared(VSub(exResult[j].location, exBases[j]))
                <= MAX_EXPLODE_DISTANCE * MAX_EXPLODE_DISTANCE

\* the parts, arrows and markers that the last rendered image shows
ShownInLastRender ==
    {o \in renders[Len(renders)].visible : o[1] \in {"part", "arrow", "marker"}}

\* C25: when a step image is rendered, the render-visible parts, arrows
\* and markers are exactly the parts already assembled, the parts of this
\* step and the arrows created in this step.
C25_StepImageShowsAssembledNewAndArrows ==
    (mode = "main" /\ pc = "finish") =>
        ShownInLastRender =
            {PartId(j) : j \in {a \in PartIndices : a < step_i}}
            \cup {PartId(j) : j \in SeqToSet(ThisStepIndices)}
            \cup NamesOf(current_step_arrows)

\* C26: the lights and the camera made by setup_scene are render-visible
\* in every step image and in the final-assembly image.
C26_LightsAndCameraStayVisible ==
    (/\ mode = "main"
     /\ renders # <<>>
     /\ renders[Len(renders)].image \in {"step", "final_assembly"}) =>
        SetupObjects \subseteq renders[Len(renders)].visible

\* the point at percent % of the way from start to end
PointOnSegment(start, end, percent) ==
    LET d == VSub(end, start)
    IN  VAdd(start, <<DivTrunc(d[1] * percent, 1000),
                      DivTrunc(d[2] * percent, 1000),
                      DivTrunc(d[3] * percent, 1000)>>)

\* p and q differ by at most 0.001 in every coordinate
Near(p, q) ==
    \A c \in 1..3 : p[c] - q[c] \in {0 - 1, 0, 1}

\* C27: for every arrow length, the shaft's centre and the head's location
\* given to the scene are on the segment from start to end, at 37.5% and at
\* 85% of its length from start.
C27_ShaftAndHeadOnSegment ==
    (ArrowCalledLongEnough /\ arRet = "Arrow") =>
        /\ Near(arGeom.shaft_location,
                PointOnSegment(arStart, arGeom.end, 375))
        /\ Near(arGeom.head_location,
                PointOnSegment(arStart, arGeom.end, 850))

\* the image names of the iterations made so far; an iteration's i is the
\* first index of its slice
StepImageNames ==
    [k \in 1..Len(ptSlices) |->
        StepImageName(StepNum(ptSlices[k][1], ptStepSize))]

\* C30: for every num_total_parts >= 1 and TARGET_STEPS >= 1 the step loop
\* makes ceil(num_total_parts / step_size) iterations, at least one and at
\* most TARGET_STEPS, and the step image names step00, step01, ... of the
\* iterations are pairwise distinct.
C30_StepCountAndDistinctImageNames ==
    (mode = "partition" /\ ptTarget >= 1 /\ ptStepSize # NoValue) =>
        /\ Len(ptSlices) <= ptTarget
        /\ \A k \in 1..Len(ptSlices) :
              StepImageNames[k] = StepImageName(k - 1)
        /\ \A k, l \in 1..Len(ptSlices) :
              k # l => StepImageNames[k] # StepImageNames[l]
        /\ ptDone =>
              /\ Len(ptSlices) = CeilDiv(ptTotal, ptStepSize)
              /\ Len(ptSlices) >= 1

\* 9 parts with TARGET_STEPS = 8 have been assembled in 5 steps
C30_Witness ==
    /\ mode = "partition" /\ ptDone
    /\ ptTotal = 9 /\ ptTarget = 8
    /\ Len(ptSlices) = 5

\* the handler or the initial scan has dealt with the file before
HandledBefore(name) ==
    name \in wRecent \/ \E k \in 1..Len(wCalls) : wCalls[k].name = name

\* C28: after a supported file has been handled once, a later modified
\* event for the same path whose content has a hash that is in no cache
\* makes process_model run again, for the new content.
C28_ModifiedFileProcessedAgain ==
    [][(/\ mode = "watcher" /\ wPhase = "watch" /\ wPhase' = "watch"
        /\ wQueue # <<>> /\ wQueue' = Tail(wQueue)
        /\ Head(wQueue).type = "modified"
        /\ ~Head(wQueue).is_directory
        /\ Accepted(Head(wQueue).name)
        /\ HandledBefore(Head(wQueue).name)
        /\ GetFileHash(wFiles, Head(wQueue).name) # NoHash
        /\ GetFileHash(wFiles, Head(wQueue).name) \notin wMem \cup wDisk)
       => /\ Len(wCalls') = Len(wCalls) + 1
          /\ wCalls'[Len(wCalls')].name = Head(wQueue).name
          /\ wCalls'[Len(wCalls')].hash
                = GetFileHash(wFiles, Head(wQueue).name)]_vars

\* C29: a hash is in cache.json or in the in-memory cache only if the
\* Blender step for a file of that hash has succeeded.
C29_CachedOnlyAfterBlenderSuccess ==
    mode = "watcher" => (wDisk \cup wMem) \subseteq wBlenderOk

====
